---------------------------- MODULE Spec2Model ----------------------------
(***************************************************************************)
(* Model of carelink_client_proxy.py: a poller that periodically downloads *)
(* a data document from the Carelink API into the module-level variable    *)
(* recentData, and a threaded HTTP server whose handlers read recentData.  *)
(*                                                                         *)
(* The remote client (carelink_client.CareLinkClient) is an opaque         *)
(* collaborator: every call of getRecentData either raises or returns any  *)
(* document (or None) together with any status code and success flag.      *)
(* time.time() is the wall clock, which the system may set back, so every  *)
(* reading is drawn from Clock; readings are whole seconds.                *)
(***************************************************************************)
EXTENDS Integers, Sequences, FiniteSets, TLC

VARIABLES
    pc,                \* position of the main thread
    serverUp,          \* start_webserver() has been called
    recentData,        \* module-level recentData (line 59)
    wait,              \* configured poll interval (line 173)
    i,                 \* download counter (line 201)
    j,                 \* loop variable of "for j in range(2)"
    lastResponseCode,  \* client.getLastResponseCode()
    lastDataSuccess,   \* client.getLastDataSuccess()
    tmoSeconds,        \* tmoSeconds (lines 231-236)
    now,               \* what time.time() returned at line 231 (0: not in use)
    lastSleep,         \* argument of the most recent time.sleep call
    loginCount,        \* history: number of client.login() calls
    loginResult,       \* history: what client.login() returned
    fetched,           \* history: client.getRecentData() has been called
    outcomes,          \* history: outcome of each attempt of the current cycle
    cycleStart,        \* history: recentData when the current cycle began
    lastGood,          \* history: result of the latest OK and successful fetch
    hpc,               \* position of each handler thread
    path,              \* self.path of each handler
    status,            \* status_code of each handler
    data,              \* the object each handler passes to json.dumps
    k,                 \* number of items json.dumps has written so far
    body,              \* response text built so far (sequence of tokens)
    sent,              \* status line and headers the handler has sent
    held               \* history: values recentData held during the request

pollerVars == <<pc, serverUp, recentData, wait, i, j, lastResponseCode,
                lastDataSuccess, tmoSeconds, now, lastSleep, loginCount,
                loginResult, fetched, outcomes, cycleStart, lastGood>>
handlerVars == <<hpc, path, status, data, k, body, sent>>
vars == <<pollerVars, handlerVars, held>>

---------------------------------------------------------------------------
(* Bounds *)
MaxCycles == 2

\* One handler thread stands for all of them: a handler changes only its own
\* locals and its own connection, so handlers do not affect one another.
Handlers == {"h1"}

---------------------------------------------------------------------------
(* Program constants *)
UPDATE_INTERVAL == 300
RETRY_INTERVAL == 120
GRACE == 10
RETRY_DELAY == 1
MaxAttemptsOneMore == 2 + 1
MaxAttempts == 2
HTTP_OK == 200
HTTP_FORBIDDEN == 403
HTTP_NOT_FOUND == 404
HTTP_SERVER_ERROR == 500

BASEURI == "carelink"
OPT_NOHISTORY == "nohistory"
TS == "lastConduitUpdateServerTime"
HistoryKeys == {"sgs", "markers", "limits", "notificationHistory"}

---------------------------------------------------------------------------
(* Values: Python None, the empty string, and dict documents.  A dict is   *)
(* the sequence of its <<key, value>> items in insertion order.            *)
None == [kind |-> "none", items |-> <<>>]
EmptyStr == [kind |-> "str", items |-> <<>>]
Dict(items) == [kind |-> "dict", items |-> items]

PFull == Dict(<< <<TS, 1000000>>, <<"sgs", 1>>, <<"markers", 1>>,
                 <<"limits", 1>>, <<"notificationHistory", 1>> >>)
PNew == Dict(<< <<TS, 1500>>, <<"lastSG", 2>>, <<"sgs", 2>> >>)
PNoStamp == Dict(<< <<"lastSG", 3>>, <<"markers", 3>> >>)

Payloads == {PFull, PNew, PNoStamp}
Returned == Payloads \cup {None}
StatusCodes == {HTTP_OK, HTTP_FORBIDDEN, HTTP_SERVER_ERROR}
Clock == {200, 301, 1000300}
Waits == {UPDATE_INTERVAL, 60}

HasKey(d, key) == \E n \in 1..Len(d.items) : d.items[n][1] = key
Lookup(d, key) ==
    d.items[CHOOSE n \in 1..Len(d.items) : d.items[n][1] = key][2]

---------------------------------------------------------------------------
(* Pure functions of the program *)

\* int(x / y) for integers: Python's true division followed by int(),
\* which truncates toward zero.
TruncDiv(a, b) == IF a >= 0 THEN a \div b ELSE -((-a) \div b)

NextReadingNoDivision(T, w) == T + w
\* line 230
NextReading(T, w) == TruncDiv(T, 1000) + w

TimeoutNoFallback(next, t) == next - t
\* lines 231-234
Timeout(next, t) ==
    LET tmo == next - t IN IF tmo < 0 THEN RETRY_INTERVAL ELSE tmo

\* lines 240: the duration passed to time.sleep
SleepDuration(tmo) == tmo + GRACE

AfterLoginAlwaysLoop(ok) == "cycle"
\* lines 199, 241: the loop is entered only when login() returned True
AfterLogin(ok) == IF ok THEN "cycle" ELSE "exited"

\* lines 73-93
get_essential_data(d) ==
    IF d.kind = "none" THEN EmptyStr
    ELSE IF d.kind = "dict"
         THEN Dict(SelectSeq(d.items, LAMBDA it : it[1] \notin HistoryKeys))
         ELSE d

StoredAfterLiteViewNoCopy(d) ==
    IF d.kind = "dict"
    THEN Dict(SelectSeq(d.items, LAMBDA it : it[1] \notin HistoryKeys))
    ELSE d
\* line 76: the keys are deleted from a copy, so the object that recentData
\* names is after the call what it was before
StoredAfterLiteView(d) == d

\* json.dumps: the text as a sequence of tokens
ItemTokens(it) == <<it[1], ToString(it[2])>>
RECURSIVE ItemsTokens(_)
ItemsTokens(items) ==
    IF items = <<>> THEN <<>>
    ELSE ItemTokens(Head(items)) \o ItemsTokens(Tail(items))
Dumps(d) ==
    CASE d.kind = "none" -> <<"null">>
      [] d.kind = "str" -> <<"\"\"">>
      [] OTHER -> <<"{">> \o ItemsTokens(d.items) \o <<"}">>

\* str.strip("/") on a path given as a sequence of segments and "/"
RECURSIVE LStrip(_)
LStrip(p) == IF p # <<>> /\ Head(p) = "/" THEN LStrip(Tail(p)) ELSE p
RECURSIVE RStrip(_)
RStrip(p) ==
    IF p # <<>> /\ p[Len(p)] = "/" THEN RStrip(SubSeq(p, 1, Len(p) - 1)) ELSE p
StripLeadingOnly(p) == LStrip(p)
Strip(p) == RStrip(LStrip(p))

Paths == { <<"/", BASEURI>>, <<"/", BASEURI, "/">>,
           <<"/", BASEURI, "/", OPT_NOHISTORY>>,
           <<"/", BASEURI, "/", OPT_NOHISTORY, "/">>, <<"/", "other">> }

StdHeaders == { <<"Content-type", "application/json">>,
                <<"Access-Control-Allow-Origin", "*">> }
NoResponse == [status |-> 0, headers |-> {}]

---------------------------------------------------------------------------
Init ==
    /\ pc = "start"
    /\ serverUp = FALSE
    /\ recentData = None
    /\ wait \in Waits
    /\ i = 0
    /\ j = 0
    /\ lastResponseCode = 0
    /\ lastDataSuccess = FALSE
    /\ tmoSeconds = 0
    /\ now = 0
    /\ lastSleep = 0
    /\ loginCount = 0
    /\ loginResult = FALSE
    /\ fetched = FALSE
    /\ outcomes = <<>>
    /\ cycleStart = None
    /\ lastGood = None
    /\ hpc = [h \in Handlers |-> "idle"]
    /\ path = [h \in Handlers |-> <<>>]
    /\ status = [h \in Handlers |-> 0]
    /\ data = [h \in Handlers |-> None]
    /\ k = [h \in Handlers |-> 0]
    /\ body = [h \in Handlers |-> <<>>]
    /\ sent = [h \in Handlers |-> NoResponse]
    /\ held = [h \in Handlers |-> {}]

\* the process runs; the daemon server thread ends with the main thread
Alive == pc \notin {"exited", "crashed"}

\* history: a request in progress sees every value the store takes
Holding(v) ==
    [h \in Handlers |->
        IF hpc[h] \in {"dump", "send", "write"} THEN held[h] \cup {v}
        ELSE held[h]]

---------------------------------------------------------------------------
(* Main thread *)

\* line 192
StartWebserver ==
    /\ pc = "start"
    /\ serverUp' = TRUE
    /\ pc' = "login"
    /\ UNCHANGED <<recentData, wait, i, j, lastResponseCode, lastDataSuccess,
                   tmoSeconds, now, lastSleep, loginCount, loginResult,
                   fetched, outcomes, cycleStart, lastGood>>
    /\ UNCHANGED <<handlerVars, held>>

\* lines 199-201, 241-244
Login ==
    /\ pc = "login"
    /\ \E ok \in BOOLEAN :
        /\ loginResult' = ok
        /\ pc' = AfterLogin(ok)
    /\ loginCount' = loginCount + 1
    /\ UNCHANGED <<serverUp, recentData, wait, i, j, lastResponseCode,
                   lastDataSuccess, tmoSeconds, now, lastSleep, fetched,
                   outcomes, cycleStart, lastGood>>
    /\ UNCHANGED <<handlerVars, held>>

\* lines 202-206: one more iteration of "while True"
BeginCycle ==
    /\ pc = "cycle"
    /\ i < MaxCycles
    /\ i' = i + 1
    /\ j' = 0
    /\ outcomes' = <<>>
    /\ cycleStart' = recentData
    /\ pc' = "fetch"
    /\ UNCHANGED <<serverUp, recentData, wait, lastResponseCode,
                   lastDataSuccess, tmoSeconds, now, lastSleep, loginCount,
                   loginResult, fetched, lastGood>>
    /\ UNCHANGED <<handlerVars, held>>

AssignedMerged(old, d) ==
    IF old.kind = "dict" /\ d.kind = "dict"
    THEN Dict(d.items \o SelectSeq(old.items,
                                   LAMBDA it : ~HasKey(d, it[1])))
    ELSE d
\* line 207: the name recentData is rebound to the returned object
Assigned(old, d) == d

AfterAttemptForbiddenEnds(code, success) ==
    IF code \in {HTTP_OK, HTTP_FORBIDDEN} THEN "calc" ELSE "retrywait"
AfterAttemptBreakOnValidOnly(code, success) ==
    IF code = HTTP_OK /\ success THEN "calc" ELSE "retrywait"
\* lines 209-223: "break" on status OK, otherwise wait and go on
AfterAttempt(code, success) == IF code = HTTP_OK THEN "calc" ELSE "retrywait"

AfterRaiseNextAttempt == "retrywait"
\* lines 205, 224: the try block encloses the for loop
AfterRaise == "calc"

Outcome(code, success) ==
    IF code = HTTP_OK THEN (IF success THEN "ok" ELSE "dataerror")
    ELSE "nonok"

\* lines 207-223: getRecentData returns; its result is assigned to
\* recentData before the status is looked at
FetchReturns ==
    /\ pc = "fetch"
    /\ \E d \in Returned, code \in StatusCodes, success \in BOOLEAN :
        /\ recentData' = Assigned(recentData, d)
        /\ held' = Holding(Assigned(recentData, d))
        /\ lastResponseCode' = code
        /\ lastDataSuccess' = success
        /\ outcomes' = Append(outcomes, Outcome(code, success))
        /\ lastGood' = IF code = HTTP_OK /\ success THEN d ELSE lastGood
        /\ pc' = AfterAttempt(code, success)
    /\ fetched' = TRUE
    /\ UNCHANGED <<serverUp, wait, i, j, tmoSeconds, now, lastSleep,
                   loginCount, loginResult, cycleStart>>
    /\ UNCHANGED handlerVars

\* lines 207, 224-226: getRecentData raises; the assignment does not happen
FetchRaises ==
    /\ pc = "fetch"
    /\ outcomes' = Append(outcomes, "raise")
    /\ fetched' = TRUE
    /\ pc' = AfterRaise
    /\ UNCHANGED <<serverUp, recentData, wait, i, j, lastResponseCode,
                   lastDataSuccess, tmoSeconds, now, lastSleep, loginCount,
                   loginResult, cycleStart, lastGood>>
    /\ UNCHANGED <<handlerVars, held>>

\* lines 220, 223 and the loop header: sleep one second, next j
RetryWait ==
    /\ pc = "retrywait"
    /\ lastSleep' = RETRY_DELAY
    /\ j' = j + 1
    /\ pc' = IF j + 1 < MaxAttempts THEN "fetch" ELSE "calc"
    /\ UNCHANGED <<serverUp, recentData, wait, i, lastResponseCode,
                   lastDataSuccess, tmoSeconds, now, loginCount, loginResult,
                   fetched, outcomes, cycleStart, lastGood>>
    /\ UNCHANGED <<handlerVars, held>>

\* lines 229-239; the subscript at line 230 is outside the try block, so a
\* document without the timestamp raises KeyError out of the main thread
CalcDelay ==
    /\ pc = "calc"
    /\ \E t \in Clock :
        IF recentData # None
        THEN IF HasKey(recentData, TS)
             THEN /\ tmoSeconds' =
                        Timeout(NextReading(Lookup(recentData, TS), wait), t)
                  /\ now' = t
                  /\ pc' = "sleep"
             ELSE /\ pc' = "crashed"
                  /\ UNCHANGED <<tmoSeconds, now>>
        ELSE /\ tmoSeconds' = RETRY_INTERVAL
             /\ now' = t
             /\ pc' = "sleep"
    /\ UNCHANGED <<serverUp, recentData, wait, i, j, lastResponseCode,
                   lastDataSuccess, lastSleep, loginCount, loginResult,
                   fetched, outcomes, cycleStart, lastGood>>
    /\ UNCHANGED <<handlerVars, held>>

\* line 240
Sleep ==
    /\ pc = "sleep"
    /\ lastSleep' = SleepDuration(tmoSeconds)
    /\ now' = 0
    /\ pc' = "cycle"
    /\ UNCHANGED <<serverUp, recentData, wait, i, j, lastResponseCode,
                   lastDataSuccess, tmoSeconds, loginCount, loginResult,
                   fetched, outcomes, cycleStart, lastGood>>
    /\ UNCHANGED <<handlerVars, held>>

---------------------------------------------------------------------------
(* Handler threads *)

\* lines 105-123: a handler thread gets a request, matches the path and
\* reads recentData, once, as the argument of json.dumps
Route(h) ==
    /\ serverUp /\ Alive
    /\ hpc[h] = "idle"
    /\ \E p \in Paths :
        /\ path' = [path EXCEPT ![h] = p]
        /\ IF Strip(p) = <<BASEURI>>
           THEN /\ data' = [data EXCEPT ![h] = recentData]
                /\ status' = [status EXCEPT ![h] = HTTP_OK]
                /\ hpc' = [hpc EXCEPT ![h] = "dump"]
                /\ UNCHANGED recentData
           ELSE IF Strip(p) = <<BASEURI, "/", OPT_NOHISTORY>>
           THEN /\ data' = [data EXCEPT
                              ![h] = get_essential_data(recentData)]
                /\ recentData' = StoredAfterLiteView(recentData)
                /\ status' = [status EXCEPT ![h] = HTTP_OK]
                /\ hpc' = [hpc EXCEPT ![h] = "dump"]
           ELSE /\ status' = [status EXCEPT ![h] = HTTP_NOT_FOUND]
                /\ hpc' = [hpc EXCEPT ![h] = "send"]
                /\ UNCHANGED <<data, recentData>>
    /\ held' = [held EXCEPT ![h] = {recentData}]
    /\ UNCHANGED <<k, body, sent>>
    /\ UNCHANGED <<pc, serverUp, wait, i, j, lastResponseCode,
                   lastDataSuccess, tmoSeconds, now, lastSleep, loginCount,
                   loginResult, fetched, outcomes, cycleStart, lastGood>>

DumpSourceGlobal(h) == recentData
\* lines 113, 118: json.dumps works on the object it was passed
DumpSource(h) == data[h]

\* lines 113, 118: json.dumps writes the document item by item
Dump(h) ==
    /\ serverUp /\ Alive
    /\ hpc[h] = "dump"
    /\ LET src == DumpSource(h)
           sofar == IF k[h] = 0 THEN <<"{">> ELSE body[h]
       IN  IF src.kind # "dict"
           THEN /\ body' = [body EXCEPT ![h] = body[h] \o Dumps(src)]
                /\ hpc' = [hpc EXCEPT ![h] = "send"]
                /\ UNCHANGED k
           ELSE IF k[h] < Len(src.items)
           THEN /\ body' = [body EXCEPT
                              ![h] = sofar \o ItemTokens(src.items[k[h] + 1])]
                /\ k' = [k EXCEPT ![h] = k[h] + 1]
                /\ UNCHANGED hpc
           ELSE /\ body' = [body EXCEPT ![h] = sofar \o <<"}">>]
                /\ hpc' = [hpc EXCEPT ![h] = "send"]
                /\ UNCHANGED k
    /\ UNCHANGED <<path, status, data, sent, held>>
    /\ UNCHANGED pollerVars

\* lines 126-129: status line and headers
Send(h) ==
    /\ serverUp /\ Alive
    /\ hpc[h] = "send"
    /\ sent' = [sent EXCEPT ![h] = [status |-> status[h],
                                    headers |-> StdHeaders]]
    /\ hpc' = [hpc EXCEPT ![h] = "write"]
    /\ UNCHANGED <<path, status, data, k, body, held>>
    /\ UNCHANGED pollerVars

\* lines 130-133: the body is written (a broken pipe is swallowed), do_GET
\* returns and the handler thread ends
Write(h) ==
    /\ serverUp /\ Alive
    /\ hpc[h] = "write"
    /\ hpc' = [hpc EXCEPT ![h] = "idle"]
    /\ path' = [path EXCEPT ![h] = <<>>]
    /\ status' = [status EXCEPT ![h] = 0]
    /\ data' = [data EXCEPT ![h] = None]
    /\ k' = [k EXCEPT ![h] = 0]
    /\ body' = [body EXCEPT ![h] = <<>>]
    /\ sent' = [sent EXCEPT ![h] = NoResponse]
    /\ held' = [held EXCEPT ![h] = {}]
    /\ UNCHANGED pollerVars

---------------------------------------------------------------------------
Next ==
    \/ StartWebserver
    \/ Login
    \/ BeginCycle
    \/ FetchReturns
    \/ FetchRaises
    \/ RetryWait
    \/ CalcDelay
    \/ Sleep
    \/ \E h \in Handlers : Route(h)
    \/ \E h \in Handlers : Dump(h)
    \/ \E h \in Handlers : Send(h)
    \/ \E h \in Handlers : Write(h)

Spec == Init /\ [][Next]_vars

\* the main thread alone: handlers write nothing the main thread reads
NextPoller ==
    \/ StartWebserver
    \/ Login
    \/ BeginCycle
    \/ FetchReturns
    \/ FetchRaises
    \/ RetryWait
    \/ CalcDelay
    \/ Sleep

SpecPoller == Init /\ [][NextPoller]_vars

\* the whole program with the default poll interval, which no handler reads
InitServer == Init /\ wait = UPDATE_INTERVAL
SpecServer == InitServer /\ [][Next]_vars


---------------------------------------------------------------------------
(* Properties *)

Last(seq) == seq[Len(seq)]
CycleOver == pc \in {"calc", "sleep"}
Slept == pc = "cycle" /\ i >= 1
Exhausted ==
    /\ Len(outcomes) = MaxAttempts
    /\ \A n \in 1..Len(outcomes) : outcomes[n] = "nonok"
BaseRequest(h) == Strip(path[h]) = <<BASEURI>>
IsPrefix(a, b) == Len(a) <= Len(b) /\ a = SubSeq(b, 1, Len(a))

\* C1: at every instant recentData is the initial empty value or the result
\* of the latest fetch attempt that returned OK with successful data; a
\* failed attempt never changes it.
C1_OnlyGoodFetchVisible == recentData = lastGood

\* C1 case: a snapshot was committed, then an attempt returned None with a
\* non-OK status, and None is what recentData now holds.
C1_Witness ==
    /\ pc = "retrywait"
    /\ Last(outcomes) = "nonok"
    /\ lastGood = PNew
    /\ recentData = None

\* C2: when both attempts of a cycle return a non-OK status, recentData at
\* the end of the cycle is what it was at the start of the cycle.
C2_ExhaustedKeepsSnapshot ==
    (CycleOver /\ Exhausted) => recentData = cycleStart

\* C2 case: the cycle began with a snapshot, both attempts returned None
\* with a non-OK status, and the cycle ends with recentData empty.
C2_Witness ==
    /\ CycleOver
    /\ Exhausted
    /\ cycleStart = PNew
    /\ recentData = None

\* C3: an attempt that returns OK with unsuccessful data does not change
\* recentData.
C3_DataErrorNotCommitted ==
    [][outcomes' = Append(outcomes, "dataerror") => recentData' = recentData]_vars

\* C3 case: the cycle began with a snapshot and its first attempt returned
\* OK with unsuccessful data; recentData holds what that attempt returned.
C3_Witness ==
    /\ pc = "calc"
    /\ outcomes = <<"dataerror">>
    /\ cycleStart = PNew
    /\ recentData = PFull

\* C4: a GET on /carelink serializes the one value it read from recentData;
\* the finished text is the whole text of a value recentData held during the
\* request, never a mixture of two values.
C4_WholeSnapshotServed ==
    \A h \in Handlers :
        BaseRequest(h) =>
            /\ hpc[h] = "dump" /\ k[h] > 0 => IsPrefix(body[h], Dumps(data[h]))
            /\ hpc[h] \in {"send", "write"} =>
                    \E v \in held[h] : v = data[h] /\ body[h] = Dumps(v)

\* C4 witness: recentData was replaced during a /carelink request and the
\* whole old document is about to be written.
C4_Witness ==
    \E h \in Handlers :
        /\ hpc[h] = "write"
        /\ BaseRequest(h)
        /\ body[h] = Dumps(PFull)
        /\ recentData = PNew
        /\ held[h] = {PFull, PNew}

\* C5: after a successful login no behaviour of the remote client ends the
\* main thread: every cycle reaches the inter-cycle sleep.
C5_PollerNeverStops == pc # "crashed"

\* C5 case: an OK, successful document without the timestamp was fetched
\* and the subscript at line 230 ended the main thread.
C5_Witness ==
    /\ pc = "crashed"
    /\ outcomes = <<"ok">>
    /\ recentData = PNoStamp

\* C6: exactly one login attempt is made, before any fetch; if it fails no
\* fetch is ever made, recentData stays empty and the process exits.
C6_LoginOnceBeforeFetch ==
    /\ loginCount <= 1
    /\ pc \notin {"start", "login"} => loginCount = 1
    /\ (fetched \/ i > 0) => loginCount = 1 /\ loginResult
    /\ (loginCount = 1 /\ ~loginResult) =>
            /\ pc = "exited"
            /\ ~fetched
            /\ i = 0
            /\ recentData = None

\* C6 witness: the login failed and the process has exited.
C6_Witness == pc = "exited" /\ loginCount = 1 /\ ~loginResult /\ serverUp

\* C7: with a stored timestamp T, interval I and clock reading now, the
\* delay is floor(T/1000) + I - now when that is not negative and the retry
\* interval otherwise; after a successful fetch the sleep is the delay plus
\* the 10 s grace period.
C7_DelayFormula ==
    /\ (pc = "sleep" /\ recentData # None /\ HasKey(recentData, TS)) =>
            LET d == (Lookup(recentData, TS) \div 1000) + wait - now
            IN  tmoSeconds = IF d >= 0 THEN d ELSE RETRY_INTERVAL
    /\ (Slept /\ Last(outcomes) = "ok") => lastSleep = tmoSeconds + GRACE

\* C7 witness: timestamp 1500 ms, interval 300, clock 200: delay 101.
C7_Witness ==
    /\ pc = "sleep"
    /\ Last(outcomes) = "ok"
    /\ recentData = PNew
    /\ wait = UPDATE_INTERVAL
    /\ now = 200
    /\ tmoSeconds = 101

\* C8: no sleep is given a negative duration; a schedule in the past
\* (T = 1000000 ms, interval 300, now = 1000300) falls back to the retry
\* interval.
C8_SleepNeverNegative ==
    /\ lastSleep >= 0
    /\ tmoSeconds >= 0
    /\ (/\ pc = "sleep"
        /\ recentData # None
        /\ HasKey(recentData, TS)
        /\ Lookup(recentData, TS) = 1000000
        /\ wait = 300
        /\ now = 1000300) => tmoSeconds = RETRY_INTERVAL

\* C8 witness: the example of the past schedule, about to sleep.
C8_Witness ==
    /\ pc = "sleep"
    /\ recentData = PFull
    /\ wait = 300
    /\ now = 1000300
    /\ tmoSeconds = RETRY_INTERVAL

\* C9: the grace period is added to the sleep only after a cycle that
\* committed a snapshot; a cycle that ends with no snapshot in recentData
\* sleeps exactly the retry interval.
C9_GraceOnlyOnSuccess ==
    Slept =>
        /\ lastSleep =
              tmoSeconds + (IF Last(outcomes) = "ok" THEN GRACE ELSE 0)
        /\ recentData = None => lastSleep = RETRY_INTERVAL

\* C9 case: a cycle ended with recentData empty and slept 130 s.
C9_Witness ==
    /\ Slept
    /\ Exhausted
    /\ recentData = None
    /\ lastSleep = RETRY_INTERVAL + GRACE

\* C10: a cycle that ends without a successful fetch (both attempts non-OK,
\* or an exception) takes the retry interval as its delay, whatever
\* recentData holds.
C10_FailedCycleUsesRetryInterval ==
    (pc = "sleep" /\ (Exhausted \/ Last(outcomes) = "raise")) =>
        tmoSeconds = RETRY_INTERVAL

\* C10 case: the fetch raised while recentData held an older snapshot whose
\* schedule is still ahead of the clock; the delay comes from its timestamp.
C10_Witness ==
    /\ pc = "sleep"
    /\ i = 2
    /\ outcomes = <<"raise">>
    /\ recentData = PFull
    /\ wait = UPDATE_INTERVAL
    /\ now = 200
    /\ tmoSeconds = 1100

---------------------------------------------------------------------------
(* Properties of the HTTP interface and of the attempts of a cycle *)

LiteRequest(h) == Strip(path[h]) = <<BASEURI, "/", OPT_NOHISTORY>>
Answering(h) == hpc[h] \in {"send", "write"}
NoSuccessYet ==
    i <= 1 /\ \A n \in 1..Len(outcomes) : outcomes[n] # "ok"

\* a response text with the pairs of the four history keys taken out
RECURSIVE DropHistoryPairs(_)
DropHistoryPairs(t) ==
    IF Len(t) < 2 THEN t
    ELSE IF t[1] \in {"sgs", "markers", "limits", "notificationHistory"}
         THEN DropHistoryPairs(SubSeq(t, 3, Len(t)))
         ELSE <<t[1], t[2]>> \o DropHistoryPairs(SubSeq(t, 3, Len(t)))
BodyWithoutHistory(b) ==
    IF b # <<>> /\ Head(b) = "{"
    THEN <<"{">> \o DropHistoryPairs(SubSeq(b, 2, Len(b) - 1)) \o <<"}">>
    ELSE b

\* a path that is the given segments between any number of slashes
Slashes(n) == [x \in 1..n |-> "/"]
Matches(p, core) ==
    \E a \in 0..Len(p), b \in 0..Len(p) : p = Slashes(a) \o core \o Slashes(b)
NamedPaths == { <<"/", "carelink">>, <<"/", "carelink", "/">>,
                <<"/", "carelink", "/", "nohistory">> }
HasStdHeaders(h) ==
    /\ <<"Content-type", "application/json">> \in sent[h].headers
    /\ <<"Access-Control-Allow-Origin", "*">> \in sent[h].headers

\* C11: for every value of recentData the text of GET /carelink/nohistory is
\* the text of GET /carelink with the pairs of sgs, markers, limits and
\* notificationHistory taken out and everything else as it is.
C11_LiteIsFullMinusHistory ==
    \A h \in Handlers :
        (Answering(h) /\ LiteRequest(h)) =>
            \E v \in held[h] : body[h] = BodyWithoutHistory(Dumps(v))

\* C11 case: recentData is None and the lite text is "" instead of null.
C11_Witness ==
    \E h \in Handlers :
        /\ hpc[h] = "write"
        /\ LiteRequest(h)
        /\ held[h] = {None}
        /\ body[h] = <<"\"\"">>

\* C12: while nothing has been fetched, GET /carelink and GET
\* /carelink/nohistory answer 200 with the same null text.
C12_EmptyStoreSameBody ==
    \A h \in Handlers :
        (hpc[h] = "write" /\ ~fetched /\ (BaseRequest(h) \/ LiteRequest(h)))
            => sent[h].status = 200 /\ body[h] = <<"null">>

\* C12 case: before any fetch the lite endpoint answers 200 with "".
C12_Witness ==
    \E h \in Handlers :
        /\ hpc[h] = "write"
        /\ ~fetched
        /\ path[h] = <<"/", "carelink", "/", "nohistory">>
        /\ sent[h].status = 200
        /\ body[h] = <<"\"\"">>

\* C13 as stated: every path other than /carelink, /carelink/ and
\* /carelink/nohistory gets 404 with an empty text, and every response
\* carries the two headers.
C13_OnlyNamedPathsFound ==
    \A h \in Handlers :
        hpc[h] = "write" =>
            /\ HasStdHeaders(h)
            /\ path[h] \notin NamedPaths =>
                    sent[h].status = 404 /\ body[h] = <<>>

\* C13 amended: a path gets 200 exactly when it is carelink or
\* carelink/nohistory between any number of leading and trailing slashes;
\* every other path gets 404 with an empty text; every response carries
\* the two headers.
C13_UnmatchedPathsNotFound ==
    \A h \in Handlers :
        hpc[h] = "write" =>
            /\ HasStdHeaders(h)
            /\ IF \/ Matches(path[h], <<"carelink">>)
                  \/ Matches(path[h], <<"carelink", "/", "nohistory">>)
               THEN sent[h].status = 200
               ELSE sent[h].status = 404 /\ body[h] = <<>>

\* C13 witness: an undefined path answered with 404, no text, both headers.
C13_Witness ==
    \E h \in Handlers :
        /\ hpc[h] = "write"
        /\ path[h] = <<"/", "other">>
        /\ sent[h].status = 404
        /\ body[h] = <<>>
        /\ HasStdHeaders(h)

\* C14: the server is started before the login and before the first fetch,
\* and until the first successful fetch a GET on either endpoint is answered
\* with 200 and empty data.
C14_ServerFirstEmptyUntilSuccess ==
    /\ (loginCount > 0 \/ fetched) => serverUp
    /\ \A h \in Handlers :
        (hpc[h] = "write" /\ NoSuccessYet
            /\ (BaseRequest(h) \/ LiteRequest(h))) =>
            /\ sent[h].status = 200
            /\ body[h] \in {<<"null">>, <<"\"\"">>}

\* C14 case: the only attempt so far returned OK with unsuccessful data,
\* and GET /carelink answers with the document of that attempt.
C14_Witness ==
    \E h \in Handlers :
        /\ hpc[h] = "write"
        /\ BaseRequest(h)
        /\ i = 1
        /\ outcomes = <<"dataerror">>
        /\ body[h] = Dumps(PNew)

\* C15: a cycle makes at most 2 fetch attempts.
C15_AtMostTwoAttempts == Len(outcomes) <= 2

\* C15 witness: a cycle that used both attempts.
C15_Witness == pc = "calc" /\ Len(outcomes) = 2

\* C16: after a first attempt with a non-OK status (403 like any other)
\* the main thread waits 1 s and makes the second attempt of the same
\* cycle, without a login call in between.
C16_RetryAfterNonOK ==
    (Len(outcomes) = 1 /\ outcomes[1] = "nonok") =>
        /\ pc \in {"retrywait", "fetch"}
        /\ loginCount = 1
        /\ pc = "fetch" => j = 1 /\ lastSleep = 1

\* C16 witness: status 403 on the first attempt, 1 s slept, the second
\* attempt is next.
C16_Witness ==
    /\ pc = "fetch"
    /\ outcomes = <<"nonok">>
    /\ lastResponseCode = 403
    /\ lastSleep = 1
    /\ loginCount = 1

\* C17: an attempt that returns OK, with valid or with unsuccessful data,
\* is the last attempt of its cycle.
C17_OKEndsCycle ==
    /\ \A n \in 1..Len(outcomes) :
           outcomes[n] \in {"ok", "dataerror"} => n = Len(outcomes)
    /\ (outcomes # <<>> /\ Last(outcomes) \in {"ok", "dataerror"}) =>
           pc \in {"calc", "sleep", "cycle", "crashed"}

\* C17 witness: a second attempt returned OK with unsuccessful data and the
\* cycle is at its sleep.
C17_Witness == pc = "sleep" /\ outcomes = <<"nonok", "dataerror">>

\* C18: after an attempt that returned OK with valid data recentData is
\* exactly the returned document, with nothing of the previous one.
C18_SuccessReplacesWhole ==
    (outcomes # <<>> /\ Last(outcomes) = "ok") => recentData = lastGood

\* C18 witness: the full document was replaced by a smaller one.
C18_Witness ==
    /\ pc = "calc"
    /\ outcomes = <<"ok">>
    /\ cycleStart = PFull
    /\ recentData = PNew

\* C19: no step of a handler changes recentData.
C19_HandlersOnlyRead ==
    [][handlerVars' # handlerVars => recentData' = recentData]_vars

\* C19 witness: the lite view of the full document is about to be written
\* and recentData still has the four history keys.
C19_Witness ==
    \E h \in Handlers :
        /\ hpc[h] = "write"
        /\ LiteRequest(h)
        /\ body[h] = <<"{", "lastConduitUpdateServerTime", "1000000", "}">>
        /\ recentData = PFull
        /\ \A key \in HistoryKeys : HasKey(recentData, key)

\* C20: an attempt that raises leaves recentData as it was and is the last
\* attempt of its cycle.
C20_RaiseKeepsStoreEndsCycle ==
    [][/\ outcomes' = Append(outcomes, "raise") =>
            recentData' = recentData /\ pc' = "calc"
       /\ (outcomes # <<>> /\ Last(outcomes) = "raise") =>
            outcomes' \in {outcomes, <<>>}]_vars

\* C20 witness: the second attempt raised; recentData holds what the first
\* attempt had put there and the cycle is at its delay computation.
C20_Witness ==
    /\ pc = "calc"
    /\ outcomes = <<"nonok", "raise">>
    /\ cycleStart = None
    /\ recentData = PNew

=============================================================================
